---------------------------- MODULE Spec2Model ----------------------------
(***************************************************************************)
(* A model of newtoniangravity.py: the gravpoint class, the vector         *)
(* helpers, merge_detect, gravity, updateall, the module-level scenario    *)
(* data and main.                                                          *)
(*                                                                         *)
(* Number representation.  The program computes with floating-point        *)
(* numbers.  Every real quantity (a position, a velocity, a force, a       *)
(* colour channel) is represented here by the integer round-toward-zero of *)
(* SCALE times its value; masses and radii are integers as in the          *)
(* scenario data.  Division rounds toward zero, which like IEEE-754        *)
(* rounding is symmetric in the sign of its operands.  A value smaller than *)
(* 1/SCALE is held as 0.  Vectors are the float arrays the program holds   *)
(* after its first tick.                                                   *)
(*                                                                         *)
(* Indices i and j are the 0-based indices of the Python code; the cell    *)
(* gpoints[i] of the program is gpoints[i + 1] here.                       *)
(***************************************************************************)
EXTENDS Integers, Sequences, FiniteSets

VARIABLES
    argv,        \* sys.argv, as the set of its words
    gpoints,     \* the module-level list of gravpoints
    pc,          \* the place the program is at
    i,           \* loop variable i of merge_detect / gravity / the move loop
    j,           \* loop variable j of merge_detect / gravity
    ni,          \* the range(...) bound of the running outer loop
    nj,          \* the range(...) bound of the running inner loop
    par_forces,  \* gravity: partial forces on gpoints[i]
    forces,      \* gravity: net forces computed so far
    count,       \* main: iteration tracking variable
    merged,      \* merge_detect: << >> or <<the latest merge>>
    norm,        \* gravity: << >> or <<the latest normalize call>>
    world0,      \* the list as first handed to the main loop
    snap         \* << >> or <<the list as merge_detect left it this tick>>

vars == <<argv, gpoints, pc, i, j, ni, nj, par_forces, forces, count,
          merged, norm, world0, snap>>

---------------------------------------------------------------------------
\* Bounds of the model.

\* Fixed-point resolution: a real x is held as x * SCALE.
SCALE == 100

\* Largest number of bodies in a world handed to updateall.
MaxBodies == 3

\* Largest number of iterations of the main loop.
MaxCount == 2

---------------------------------------------------------------------------
\* Arithmetic.

TruncDiv(a, b) == IF a >= 0 THEN a \div b ELSE -((-a) \div b)

Abs(a) == IF a >= 0 THEN a ELSE -a

Min(a, b) == IF a <= b THEN a ELSE b

RECURSIVE SqrtSearch(_, _, _)
SqrtSearch(n, lo, hi) ==
    IF lo >= hi THEN lo
    ELSE LET mid == (lo + hi + 1) \div 2
         IN  IF mid * mid <= n THEN SqrtSearch(n, mid, hi)
                               ELSE SqrtSearch(n, lo, mid - 1)

\* math.sqrt on a non-negative number: the largest r with r * r <= n.
sqrt(n) == SqrtSearch(n, 0, Min(n, 46340))

RECURSIVE CbrtSearch(_, _)
CbrtSearch(m, r) == IF (r + 1) * (r + 1) * (r + 1) <= m THEN CbrtSearch(m, r + 1) ELSE r

\* int(mass ** (1/3)).  In double precision (n*n*n) ** (1/3) falls just
\* short of n for every n >= 4, so int() yields n - 1 for those cubes.
Radius(mass) ==
    LET r == CbrtSearch(mass, 0)
    IN  IF r * r * r = mass /\ r >= 4 THEN r - 1 ELSE r

RECURSIVE LogReduce(_, _)
LogReduce(x, k) ==
    IF x >= 2 * SCALE THEN LogReduce(x \div 2, k + 1)
    ELSE IF x < SCALE THEN LogReduce(2 * x, k - 1)
    ELSE <<x, k>>

\* math.log(x) for x > 0: x = r * 2^k with 1 <= r < 2, and
\* ln r = 2 * (y + y^3/3 + y^5/5), y = (r - 1)/(r + 1), in thousandths.
log(x) ==
    LET xk == LogReduce(x, 0)
        y  == ((xk[1] - SCALE) * 1000) \div (xk[1] + SCALE)
        y3 == (y * y * y) \div 1000000
        y5 == (y3 * y * y) \div 1000000
        ln == xk[2] * 693 + 2 * (y + (y3 \div 3) + (y5 \div 5))
    IN  TruncDiv(ln * SCALE, 1000)

---------------------------------------------------------------------------
\* Vectors (numpy arrays of length 3).

Axes == 1..3

zero == <<0, 0, 0>>

VAdd(a, b) == [c \in Axes |-> a[c] + b[c]]

VSub(a, b) == [c \in Axes |-> a[c] - b[c]]

\* array * integer, array / integer (a mass, or the literal 2)
VTimes(a, k) == [c \in Axes |-> a[c] * k]

VOver(a, k) == [c \in Axes |-> TruncDiv(a[c], k)]

\* array * float
VScale(a, f) == [c \in Axes |-> TruncDiv(a[c] * f, SCALE)]

\* ndarray.all(): every component is nonzero
All(a) == \A c \in Axes : a[c] # 0

\* distance(point1, point2)
distance(point1, point2) ==
    sqrt(  (point1[1] - point2[1]) * (point1[1] - point2[1])
         + (point1[2] - point2[2]) * (point1[2] - point2[2])
         + (point1[3] - point2[3]) * (point1[3] - point2[3]))

\* normalize(point): the value of point after the call.  point.all() == 0
\* holds as soon as one component is zero.
normalize(point) ==
    IF ~All(point) THEN point
    ELSE LET dist == distance(point, zero)
         IN  [c \in Axes |-> TruncDiv(point[c] * SCALE, dist)]

---------------------------------------------------------------------------
\* class gravpoint.

White == <<255 * SCALE, 255 * SCALE, 255 * SCALE>>

\* gravpoint.__init__
gravpoint(pos, mass, vel, imov, color) ==
    [mass |-> mass, pos |-> pos, vel |-> vel, radius |-> Radius(mass),
     imov |-> imov, color |-> color]

\* gravpoint.move
move(self) ==
    IF ~self.imov THEN [self EXCEPT !.pos = VAdd(self.pos, self.vel)] ELSE self

\* A velocity update that leaves immovable points alone.
updateSkippingImmovable(self, force) ==
    IF self.imov THEN self
    ELSE [self EXCEPT !.vel = VAdd(self.vel, VOver(force, self.mass))]

\* gravpoint.update
update(self, force) ==
    [self EXCEPT !.vel = VAdd(self.vel, VOver(force, self.mass))]

\* An addition that keeps the position of the second operand whenever the
\* result is immovable.
addKeepingOther(self, other) ==
    LET newmass == self.mass + other.mass
        newvel  == VOver(VAdd(VTimes(self.vel, self.mass),
                              VTimes(other.vel, other.mass)), newmass)
        newimov == self.imov \/ other.imov
        newpos  == IF newimov THEN other.pos
                   ELSE VAdd(self.pos, VOver(other.pos, 2))
    IN  gravpoint(newpos, newmass, newvel, newimov,
                  VOver(VAdd(self.color, other.color), 2))

\* gravpoint.__add__
add(self, other) ==
    LET newmass  == self.mass + other.mass
        selfin   == VTimes(self.vel, self.mass)
        otherin  == VTimes(other.vel, other.mass)
        combmass == self.mass + other.mass
        newvel   == VOver(VAdd(selfin, otherin), combmass)
        newimov  == self.imov \/ other.imov
        newpos   == IF newimov
                    THEN IF self.imov THEN self.pos ELSE other.pos
                    ELSE VAdd(self.pos, VOver(other.pos, 2))
        newcol   == VOver(VAdd(self.color, other.color), 2)
    IN  gravpoint(newpos, newmass, newvel, newimov, newcol)

\* gravpoint.__eq__: the positions and the velocities are compared through
\* ndarray.all() only.
eq(self, other) ==
    /\ All(self.pos) = All(other.pos)
    /\ All(self.vel) = All(other.vel)
    /\ self.mass = other.mass

---------------------------------------------------------------------------
\* Lists.

\* gpoints[k] for a 0-based k
At(s, k) == s[k + 1]

\* list.remove(x): drops the first element that is x or equals x
remove(s, x) ==
    LET k == CHOOSE n \in 1..Len(s) :
                 /\ eq(s[n], x)
                 /\ \A m \in 1..(n - 1) : ~eq(s[m], x)
    IN  [n \in 1..(Len(s) - 1) |-> IF n < k THEN s[n] ELSE s[n + 1]]

\* gpoints[k] = x for a 0-based k
Store(s, k, x) == [s EXCEPT ![k + 1] = x]

RECURSIVE SumForces(_, _)
SumForces(s, acc) ==
    IF s = << >> THEN acc ELSE SumForces(Tail(s), VAdd(acc, Head(s)))


---------------------------------------------------------------------------
\* gravity: the force of one pair.

\* GRAVEC * 1000 * 1000 = 6.67e-11 * 1000 * 1000 * 1000 = GRAVEC_NUM / GRAVEC_DEN
GRAVEC_NUM == 667

GRAVEC_DEN == 10000

\* An attraction that takes the mass of the point itself twice.
attractionOwnMass(mainpoint, otherpoint) ==
    TruncDiv(TruncDiv(GRAVEC_NUM * mainpoint.mass * mainpoint.mass, 100) * SCALE,
             GRAVEC_DEN \div 100)

\* GRAVEC * (mainpoint.mass*1000 * otherpoint.mass*1000); the division by
\* GRAVEC_DEN is done in two steps of 100 to stay within TLC's integers.
attraction(mainpoint, otherpoint) ==
    TruncDiv(TruncDiv(GRAVEC_NUM * mainpoint.mass * otherpoint.mass, 100) * SCALE,
             GRAVEC_DEN \div 100)

\* force / (dist**2), computed as (force / dist) / dist to stay within
\* TLC's integers.
inverseSquare(force, dist) ==
    TruncDiv(TruncDiv(force * SCALE, dist) * SCALE, dist)

\* math.log raises ValueError for this pair: log of a non-positive number.
logDomainError(mainpoint, otherpoint) ==
    LET dist == distance(mainpoint.pos, otherpoint.pos)
    IN  /\ dist # 0
        /\ dist <= 5 * SCALE
        /\ inverseSquare(attraction(mainpoint, otherpoint), dist) <= 0

\* The value of the variable force of gravity when the force vector is made.
magnitude(mainpoint, otherpoint) ==
    LET force == attraction(mainpoint, otherpoint)
        dist  == distance(mainpoint.pos, otherpoint.pos)
    IN  IF dist = 0 THEN 0
        ELSE IF dist <= 5 * SCALE THEN log(inverseSquare(force, dist))
        ELSE inverseSquare(force, dist)

\* par_force before normalize(par_force)
difference(mainpoint, otherpoint) == VSub(otherpoint.pos, mainpoint.pos)

\* par_force as appended to par_forces
partialForce(mainpoint, otherpoint) ==
    VScale(normalize(difference(mainpoint, otherpoint)),
           magnitude(mainpoint, otherpoint))

---------------------------------------------------------------------------
\* merge_detect: the body of the try statement for the pair (i, j).

\* IndexError: gpoints[i] or gpoints[j] is past the end of the list
indexError(s, a, b) == a >= Len(s) \/ b >= Len(s)

\* dist < rad
overlap(p, q) == distance(p.pos, q.pos) < (p.radius + q.radius) * SCALE

\* the list after the merge of gpoints[a] and gpoints[b]
mergePair(s, a, b) ==
    LET new == add(At(s, a), At(s, b))
    IN  IF a > b THEN Store(remove(s, At(s, a)), b, new)
                 ELSE Store(remove(s, At(s, b)), a, new)

---------------------------------------------------------------------------
\* Worlds handed to the main loop.

P(x, y, z) == <<x * SCALE, y * SCALE, z * SCALE>>

BodySet ==
    { gravpoint(P(0, 0, 0),  8,  P(0, 0, 0), TRUE,  White),
      gravpoint(P(3, 0, 0),  8,  P(0, 0, 0), FALSE, White),
      gravpoint(P(-3, 0, 0), 8,  P(0, 0, 0), FALSE, White),
      gravpoint(P(6, 0, 0),  8,  P(0, 0, 0), FALSE, White),
      gravpoint(P(6, 0, 0),  27, P(0, 0, 0), FALSE, White),
      gravpoint(P(2, 2, 3),  8,  P(1, 1, 1), FALSE, White),
      gravpoint(P(3, 0, 0),  27, P(0, 0, 0), TRUE,  White) }

Worlds == UNION { [1..n -> BodySet] : n \in 0..MaxBodies }

---------------------------------------------------------------------------
\* The main loop and updateall.

\* while 1: no exit event; the points are drawn and updateall is called
Loop ==
    /\ pc = "loop"
    /\ count < MaxCount
    /\ pc' = "merge_detect_i"
    /\ i' = 0
    /\ ni' = Len(gpoints)
    /\ snap' = << >>
    /\ UNCHANGED <<argv, gpoints, j, nj, par_forces, forces, count, merged,
                   norm, world0>>

\* while 1: pygame.QUIT or the escape key: pygame.quit(); sys.exit()
Quit ==
    /\ pc = "loop"
    /\ pc' = "exit"
    /\ UNCHANGED <<argv, gpoints, i, j, ni, nj, par_forces, forces, count,
                   merged, norm, world0, snap>>

\* merge_detect: for i in range(len(gpoints)); at its end gravity starts
merge_detect_i ==
    /\ pc = "merge_detect_i"
    /\ IF i < ni
       THEN /\ pc' = "merge_detect_j"
            /\ j' = i + 1
            /\ nj' = Len(gpoints)
            /\ UNCHANGED <<i, ni, forces, snap>>
       ELSE /\ pc' = "gravity_i"
            /\ i' = 0
            /\ ni' = Len(gpoints)
            /\ forces' = << >>
            /\ snap' = <<gpoints>>
            /\ UNCHANGED <<j, nj>>
    /\ UNCHANGED <<argv, gpoints, par_forces, count, merged, norm, world0>>

\* merge_detect: for j in range(i + 1, len(gpoints)) and its try statement
merge_detect_j ==
    /\ pc = "merge_detect_j"
    /\ IF j < nj
       THEN /\ IF ~indexError(gpoints, i, j) /\ overlap(At(gpoints, i), At(gpoints, j))
               THEN /\ gpoints' = mergePair(gpoints, i, j)
                    /\ merged' = <<[i      |-> i,
                                    j      |-> j,
                                    self   |-> At(gpoints, i),
                                    other  |-> At(gpoints, j),
                                    new    |-> add(At(gpoints, i), At(gpoints, j)),
                                    before |-> gpoints,
                                    after  |-> gpoints']>>
               ELSE UNCHANGED <<gpoints, merged>>
            /\ j' = j + 1
            /\ UNCHANGED <<pc, i>>
       ELSE /\ pc' = "merge_detect_i"
            /\ i' = i + 1
            /\ UNCHANGED <<gpoints, merged, j>>
    /\ UNCHANGED <<argv, ni, nj, par_forces, forces, count, norm, world0, snap>>

\* gravity: for i in range(len(gpoints)); at its end the update loop starts
gravity_i ==
    /\ pc = "gravity_i"
    /\ IF i < ni
       THEN /\ pc' = "gravity_j"
            /\ par_forces' = << >>
            /\ j' = 0
            /\ nj' = Len(gpoints)
            /\ UNCHANGED i
       ELSE /\ pc' = "gravity_update"
            /\ i' = 0
            /\ UNCHANGED <<par_forces, j, nj>>
    /\ UNCHANGED <<argv, gpoints, ni, forces, count, merged, norm, world0, snap>>

\* A gravity loop that applies each net force as soon as it is summed.
gravity_jInterleaved ==
    /\ pc = "gravity_j"
    /\ IF j < nj
       THEN IF i = j
            THEN /\ j' = j + 1
                 /\ UNCHANGED <<pc, i, par_forces, forces, norm, gpoints>>
            ELSE /\ par_forces' = Append(par_forces,
                                         partialForce(At(gpoints, i), At(gpoints, j)))
                 /\ j' = j + 1
                 /\ UNCHANGED <<pc, i, forces, norm, gpoints>>
       ELSE /\ forces' = Append(forces, SumForces(par_forces, zero))
            /\ gpoints' = Store(gpoints, i,
                                update(At(gpoints, i), SumForces(par_forces, zero)))
            /\ i' = i + 1
            /\ pc' = "gravity_i"
            /\ UNCHANGED <<j, par_forces, norm>>
    /\ UNCHANGED <<argv, ni, nj, count, merged, world0, snap>>

\* gravity: for j in range(len(gpoints)); at its end the partial forces are
\* added up and appended to forces
gravity_j ==
    /\ pc = "gravity_j"
    /\ IF j < nj
       THEN IF i = j
            THEN /\ j' = j + 1
                 /\ UNCHANGED <<pc, i, par_forces, forces, norm>>
            ELSE IF logDomainError(At(gpoints, i), At(gpoints, j))
            THEN /\ pc' = "raised"
                 /\ UNCHANGED <<i, j, par_forces, forces, norm>>
            ELSE /\ par_forces' = Append(par_forces,
                                         partialForce(At(gpoints, i), At(gpoints, j)))
                 /\ norm' = <<[arg |-> difference(At(gpoints, i), At(gpoints, j)),
                               res |-> normalize(difference(At(gpoints, i),
                                                            At(gpoints, j)))]>>
                 /\ j' = j + 1
                 /\ UNCHANGED <<pc, i, forces>>
       ELSE /\ forces' = Append(forces, SumForces(par_forces, zero))
            /\ i' = i + 1
            /\ pc' = "gravity_i"
            /\ UNCHANGED <<j, par_forces, norm>>
    /\ UNCHANGED <<argv, gpoints, ni, nj, count, merged, world0, snap>>

\* gravity: for i in range(len(gpoints)): gpoints[i].update(forces[i]);
\* at its end updateall goes on to its move loop
gravity_update ==
    /\ pc = "gravity_update"
    /\ IF i < ni
       THEN /\ gpoints' = Store(gpoints, i, update(At(gpoints, i), At(forces, i)))
            /\ i' = i + 1
            /\ UNCHANGED pc
       ELSE /\ pc' = "move"
            /\ i' = 0
            /\ UNCHANGED gpoints
    /\ UNCHANGED <<argv, j, ni, nj, par_forces, forces, count, merged, norm,
                   world0, snap>>

\* updateall: for gpoint in gpoints: gpoint.move(); then main: count += 1
move_all ==
    /\ pc = "move"
    /\ IF i < Len(gpoints)
       THEN /\ gpoints' = Store(gpoints, i, move(At(gpoints, i)))
            /\ i' = i + 1
            /\ UNCHANGED <<pc, count>>
       ELSE /\ pc' = "loop"
            /\ count' = count + 1
            /\ UNCHANGED <<gpoints, i>>
    /\ UNCHANGED <<argv, j, ni, nj, par_forces, forces, merged, norm, world0,
                   snap>>

Init ==
    /\ argv = {}
    /\ gpoints \in Worlds
    /\ world0 = gpoints
    /\ pc = "loop"
    /\ i = 0 /\ j = 0 /\ ni = 0 /\ nj = 0
    /\ par_forces = << >>
    /\ forces = << >>
    /\ count = 0
    /\ merged = << >>
    /\ norm = << >>
    /\ snap = << >>

Next ==
    \/ Loop
    \/ Quit
    \/ merge_detect_i
    \/ merge_detect_j
    \/ gravity_i
    \/ gravity_j
    \/ gravity_update
    \/ move_all

Spec == Init /\ [][Next]_vars

---------------------------------------------------------------------------
\* The module-level data and main.

\* The words the membership tests of the module-level code tell apart: the
\* four commands, and one word that is none of them.
Words == {"square", "circle", "line", "orbit", "other"}

\* cos(i), sin(i), sin(i + 60), cos(i + 60) for i in range(0, 360, 10), the
\* argument taken in radians as math.cos and math.sin do, in ten-thousandths.
CosTable ==
    <<
        10000, -8390, 4080, 1542, -6669, 9649, -9524, 6333, -1103, -4480,
        8623, -9990, 8141, -3672, -1978, 6992, -9756, 9379, -5984, 663,
        4871, -8838, 9960, -7876, 3257, 2409, -7301, 9843, -9217, 5624,
        -220, -5253, 9037, -9911, 7596, -2836 >>

SinTable ==
    <<
        0, -5440, 9129, -9880, 7451, -2623, -3048, 7738, -9938, 8939,
        -5063, -442, 5806, -9301, 9802, -7148, 2194, 3466, -8011, 9977,
        -8732, 4677, 883, -6160, 9454, -9705, 6832, -1760, -3878, 8268,
        -9997, 8508, -4281, -1323, 6503, -9589 >>

Sin2Table ==
    <<
        -3048, 7738, -9938, 8939, -5063, -442, 5806, -9301, 9802, -7148,
        2194, 3466, -8011, 9977, -8732, 4677, 883, -6160, 9454, -9705,
        6832, -1760, -3878, 8268, -9997, 8508, -4281, -1323, 6503, -9589,
        9589, -6502, 1323, 4282, -8509, 9997 >>

Cos2Table ==
    <<
        -9524, 6333, -1103, -4480, 8623, -9990, 8141, -3672, -1978, 6992,
        -9756, 9379, -5984, 663, 4871, -8838, 9960, -7876, 3257, 2409,
        -7301, 9843, -9217, 5624, -220, -5253, 9037, -9911, 7596, -2836,
        -2836, 7597, -9912, 9036, -5252, -221 >>

\* cosang * 100, cos2ang * 10, abs(sinang) * 255 from a table entry
Times100(t) == TruncDiv(t * SCALE, 100)

Times10(t) == TruncDiv(t * SCALE, 1000)

Times255(t) == TruncDiv(Abs(t) * 255 * SCALE, 10000)

centerp == gravpoint(P(0, 0, 0), 1500, P(0, 0, 0), TRUE, White)

square ==
    << gravpoint(P(0, -50, 0), 100, P(0, 0, 0), FALSE, White),
       gravpoint(P(0, 50, 0),  100, P(0, 0, 0), FALSE, White),
       gravpoint(P(50, 0, 0),  100, P(0, 0, 0), FALSE, White),
       gravpoint(P(-50, 0, 0), 100, P(0, 0, 0), FALSE, White),
       gravpoint(P(0, 0, 0),   200, P(0, 0, 1), FALSE, White) >>

circle ==
    <<centerp>> \o
    [k \in 1..36 |->
        gravpoint(<<Times100(CosTable[k]), Times100(SinTable[k]), 0>>,
                  50,
                  <<Times10(Cos2Table[k]), Times10(Sin2Table[k]), 0>>,
                  FALSE,
                  <<Times255(SinTable[k]), Times255(CosTable[k]),
                    Times255(Sin2Table[k])>>)]

line ==
    << gravpoint(P(0, -50, 0),  100, P(0, 0, 0), FALSE, White),
       gravpoint(P(0, 50, 0),   100, P(0, 0, 0), FALSE, White),
       gravpoint(P(0, 100, 0),  100, P(0, 0, 0), FALSE, White),
       gravpoint(P(0, -100, 0), 100, P(0, 0, 0), FALSE, White),
       gravpoint(P(0, 200, 0),  100, P(0, 0, 0), FALSE, White),
       gravpoint(P(0, -200, 0), 100, P(0, 0, 0), FALSE, White) >>

orbit ==
    << gravpoint(P(0, 0, 0),   2000, P(-1, 0, 0), FALSE, White),
       gravpoint(P(0, 100, 0), 200,  P(10, 0, 0), FALSE, White) >>

\* gpoints = [] followed by the four "if <command> in sys.argv" blocks
scenario(args) ==
    (IF "square" \in args THEN square ELSE << >>) \o
    (IF "circle" \in args THEN circle ELSE << >>) \o
    (IF "line" \in args THEN line ELSE << >>) \o
    (IF "orbit" \in args THEN orbit ELSE << >>)

\* Whether the name gpoints is bound when main looks it up: the assignment
\* gpoints = [] at module level is unconditional.
gpointsBound == TRUE

\* The module-level code, run when the file is loaded.
ModuleData ==
    /\ pc = "import"
    /\ gpoints' = scenario(argv)
    /\ world0' = gpoints'
    /\ pc' = "main"
    /\ UNCHANGED <<argv, i, j, ni, nj, par_forces, forces, count, merged,
                   norm, snap>>

\* main, up to its loop: the check for a recognized command, the screen
\* setup and count = 0
main ==
    /\ pc = "main"
    /\ IF ~gpointsBound
       THEN pc' = "exit"
       ELSE pc' = "loop"
    /\ count' = 0
    /\ UNCHANGED <<argv, gpoints, i, j, ni, nj, par_forces, forces, merged,
                   norm, world0, snap>>

InitMain ==
    /\ argv \in SUBSET Words
    /\ gpoints = << >>
    /\ world0 = << >>
    /\ pc = "import"
    /\ i = 0 /\ j = 0 /\ ni = 0 /\ nj = 0
    /\ par_forces = << >>
    /\ forces = << >>
    /\ count = 0
    /\ merged = << >>
    /\ norm = << >>
    /\ snap = << >>

NextMain ==
    \/ ModuleData
    \/ main
    \/ Loop
    \/ Quit
    \/ merge_detect_i
    \/ merge_detect_j
    \/ gravity_i
    \/ gravity_j
    \/ gravity_update
    \/ move_all

SpecMain == InitMain /\ [][NextMain]_vars

---------------------------------------------------------------------------
\* Properties.

Recognized == {"square", "circle", "line", "orbit"}

VNeg(a) == [c \in Axes |-> -a[c]]

Bodies(s) == { s[k] : k \in 1..Len(s) }

Occurrences(s, x) == Cardinality({ k \in 1..Len(s) : s[k] = x })

RECURSIVE TotalMass(_)
TotalMass(s) == IF s = << >> THEN 0 ELSE Head(s).mass + TotalMass(Tail(s))

\* C1, for a world with one immovable body: that body is still represented,
\* after any number of steps of updateall, by an immovable body at the same
\* position.
C1_ImmovableStaysInPlace ==
    \A k \in 1..Len(world0) :
        (world0[k].imov /\ \A n \in 1..Len(world0) : n # k => ~world0[n].imov) =>
            \E n \in 1..Len(gpoints) :
                gpoints[n].imov /\ gpoints[n].pos = world0[k].pos

\* C2: a merge of the pair (i, j) leaves a list that is one entry shorter and
\* holds, counted with multiplicity, the entries of the list before the merge
\* without the two merged bodies and with their merge result.
C2_MergeReplacesThePair ==
    merged # << >> =>
        LET m == merged[1]
        IN  /\ Len(m.after) = Len(m.before) - 1
            /\ \A x \in Bodies(m.before) \cup Bodies(m.after) \cup {m.new} :
                   Occurrences(m.after, x)
                     = Occurrences(m.before, x)
                       - Occurrences(<<m.self, m.other>>, x)
                       + Occurrences(<<m.new>>, x)

MergeStep == Len(gpoints') < Len(gpoints)

\* A step in which gravity computes a partial force or a net force.
ForceStep == Len(par_forces') > Len(par_forces) \/ Len(forces') > Len(forces)

\* A step in which the velocity (the position) of a body of the list changes.
VelocityStep ==
    /\ Len(gpoints') = Len(gpoints)
    /\ \E k \in 1..Len(gpoints) : gpoints'[k].vel # gpoints[k].vel

PositionStep ==
    /\ Len(gpoints') = Len(gpoints)
    /\ \E k \in 1..Len(gpoints) : gpoints'[k].pos # gpoints[k].pos

\* C4: within a tick no pair is merged once merge_detect has returned; every
\* force is computed from the list as merge_detect left it, which that step
\* leaves as it is; a velocity changes only when a net force has been
\* computed for every body and no position has been advanced; a position is
\* advanced only when every velocity has its value for this tick, and that
\* step changes no velocity.
C4_PhasesInOrder ==
    [][ /\ MergeStep => snap = << >>
        /\ ForceStep => snap = <<gpoints>> /\ gpoints' = gpoints
        /\ VelocityStep =>
              /\ Len(forces) = Len(gpoints)
              /\ \A k \in 1..Len(gpoints) : gpoints[k].pos = snap[1][k].pos
              /\ ~PositionStep
        /\ PositionStep =>
              /\ \A k \in 1..Len(gpoints) :
                     gpoints[k].vel
                       = VAdd(snap[1][k].vel,
                              [c \in Axes |-> TruncDiv(forces[k][c], snap[1][k].mass)])
              /\ ~VelocityStep
      ]_vars

\* C4 witness: a tick has ended in which a pair was merged, two bodies were
\* left, and a body changed both its velocity and its position.
C4_Witness ==
    /\ pc = "loop"
    /\ count = 1
    /\ merged # << >>
    /\ Len(gpoints) >= 2
    /\ \E k \in 1..Len(gpoints) :
           /\ gpoints[k].vel # snap[1][k].vel
           /\ gpoints[k].pos # snap[1][k].pos

\* C5: when sys.argv holds none of the four commands the program never
\* reaches its main loop or anything run from it.
C5_UnrecognizedNeverLoops ==
    argv \cap Recognized = {} => pc \in {"import", "main", "exit"}

\* C6: the merge result of two movable bodies lies at the midpoint of their
\* positions, to within the resolution of the number representation.
C6_MergeAtMidpoint ==
    merged # << >> =>
        LET m == merged[1]
        IN  (~m.self.imov /\ ~m.other.imov) =>
                \A c \in Axes :
                    Abs(2 * m.new.pos[c] - (m.self.pos[c] + m.other.pos[c])) <= 2

\* C7: the merge result of an immovable and a movable body, in either
\* order, is immovable and lies where the immovable operand lies; the merge
\* result of two immovable bodies is immovable and lies where the first lies.
C7_ImmovableMerge ==
    merged # << >> =>
        LET m == merged[1]
        IN  /\ (m.self.imov /\ ~m.other.imov) =>
                   m.new.imov /\ m.new.pos = m.self.pos
            /\ (~m.self.imov /\ m.other.imov) =>
                   m.new.imov /\ m.new.pos = m.other.pos
            /\ (m.self.imov /\ m.other.imov) =>
                   m.new.imov /\ m.new.pos = m.self.pos
            /\ At(m.after, m.i) = m.new

\* C7 witness: an immovable body has been merged, as the first operand, with
\* an immovable body that lies elsewhere.
C7_Witness ==
    /\ merged # << >>
    /\ merged[1].self.imov
    /\ merged[1].other.imov
    /\ merged[1].self.pos # merged[1].other.pos

\* C8: normalize leaves the zero vector as it is and divides every component
\* of any other vector by the length of the vector.
C8_NormalizeDividesByLength ==
    norm # << >> =>
        LET a == norm[1].arg
            r == norm[1].res
        IN  /\ a = zero => r = a
            /\ a # zero =>
                   r = [c \in Axes |-> TruncDiv(a[c] * SCALE, distance(a, zero))]

\* C9: when gravity has computed the net forces of a list of two bodies, the
\* two forces are opposite, and both are zero if the two bodies coincide.
C9_EqualAndOpposite ==
    (pc = "gravity_update" /\ i = 0 /\ Len(gpoints) = 2) =>
        /\ forces[1] = VNeg(forces[2])
        /\ gpoints[1].pos = gpoints[2].pos =>
               forces[1] = zero /\ forces[2] = zero

\* C9 witness: on the first tick, the nonzero net forces of two bodies of
\* equal mass and zero velocity placed symmetrically about the origin.
C9_Witness ==
    /\ pc = "gravity_update" /\ i = 0 /\ count = 0
    /\ Len(world0) = 2 /\ Len(gpoints) = 2
    /\ gpoints[1].mass = gpoints[2].mass
    /\ gpoints[1].pos = VNeg(gpoints[2].pos)
    /\ gpoints[1].pos # zero
    /\ gpoints[1].vel = zero /\ gpoints[2].vel = zero
    /\ forces[1] # zero

\* C10: the masses of the list add up to what they added up to in the world
\* first handed to the main loop.
C10_TotalMassConserved == TotalMass(gpoints) = TotalMass(world0)

=============================================================================
